---------------------------- MODULE Spec2Model ----------------------------
(***************************************************************************)
(* Model of src/task.ts: the GeoNet volcano camera ETL.  Task.control()    *)
(* loads the environment, fetches all.json, decodes it, maps every camera *)
(* of every volcano group to one feature and submits the collection.      *)
(*                                                                         *)
(* Strings are sequences of tokens (substrings that the code never        *)
(* splits).  A token that begins with a blank, such as " NZST", is the    *)
(* text with its leading blank.  Instants are counted in hours.           *)
(***************************************************************************)
EXTENDS Integers, Sequences, FiniteSets, TLC

VARIABLES
    pc,             \* position of control(): start, fetch, check, json, loop, submit, catch, done, thrown
    tz,             \* offset of the host's local time zone from UTC, in hours
    cameraProxyUrl, \* line 59
    res,            \* line 64, the response
    volcanoGroups,  \* line 70
    features,       \* line 71
    gi, ci,         \* the two for-of iterators of lines 73 and 74 (1-based)
    now,            \* line 78
    fc,             \* line 140
    error,          \* the value caught at line 146
    failedAt,       \* the stage that threw it
    events,         \* calls to collaborators and console output, in order
    submitted,      \* arguments of the calls of this.submit
    prev            \* the previous invocation: its response body and what it submitted

vars == <<pc, tz, cameraProxyUrl, res, volcanoGroups, features, gi, ci, now,
          fc, error, failedAt, events, submitted, prev>>

None == [none |-> TRUE]

-----------------------------------------------------------------------------
(* Bounds of the model.                                                    *)

MaxGroups == 2

MaxCameras == 2

-----------------------------------------------------------------------------
(* Strings.                                                                *)

\* Index of the first occurrence of pat in s, 0 when there is none.
IndexOf(s, pat) ==
    LET hits == {i \in 1..(Len(s) - Len(pat) + 1) :
                    SubSeq(s, i, i + Len(pat) - 1) = pat}
    IN IF hits = {} THEN 0 ELSE CHOOSE i \in hits : \A j \in hits : i <= j

\* The characters NZST (or NZDT) occur in the tokens zone and " " + zone.
HasZone(tok, zone) ==
    \/ tok = zone
    \/ tok = " NZST" /\ zone = "NZST"
    \/ tok = " NZDT" /\ zone = "NZDT"

\* String.prototype.includes for a time zone abbreviation.
Includes(s, zone) == \E i \in 1..Len(s) : HasZone(s[i], zone)

\* String.prototype.replace(pattern, '') with a string pattern: the first
\* occurrence only.
ReplaceFirst(s, pat) ==
    LET i == IndexOf(s, pat)
    IN IF i = 0 THEN s
       ELSE SubSeq(s, 1, i - 1) \o SubSeq(s, i + Len(pat), Len(s))

EndsWith(s, pat) ==
    /\ Len(s) >= Len(pat)
    /\ SubSeq(s, Len(s) - Len(pat) + 1, Len(s)) = pat

\* replace(/\/$/, ''): one trailing slash is removed.
StripTrailingSlash(s) ==
    IF EndsWith(s, <<"/">>) THEN SubSeq(s, 1, Len(s) - 1) ELSE s

\* Array.prototype.join
RECURSIVE Join(_, _)
Join(parts, sep) ==
    IF parts = <<>> THEN <<>>
    ELSE IF Len(parts) = 1 THEN <<parts[1]>>
    ELSE <<parts[1], sep>> \o Join(Tail(parts), sep)

-----------------------------------------------------------------------------
(* Dates.  The date token stands for "2024-06-01"; the time tokens for     *)
(* " 10:00:00" and " 22:00:00" (each with its leading blank); "Z" for the  *)
(* UTC designator.                                                         *)

NZSTOffsetHours == 12

NZDTOffsetHours == 13

\* Days from the epoch to the date a date token names.
DayOf(tok) == IF tok = "2024-06-01" THEN 19875 ELSE 0

HourOf(tok) == IF tok = " 10:00:00" THEN 10 ELSE 22

IsDate(tok) == tok \in {"2024-06-01"}

IsTime(tok) == tok \in {" 10:00:00", " 22:00:00"}

NaN == [nan |-> TRUE, t |-> 0]

Instant(t) == [nan |-> FALSE, t |-> t]

\* new Date(string): the time value, or NaN.  A date alone is read as UTC
\* midnight, a date and a time without a zone as local time of the host, a
\* date and a time followed by Z as UTC; the parser knows no NZST or NZDT
\* and any other text is an invalid date.
DateParse(s, hostOffset) ==
    IF Len(s) = 1 /\ IsDate(s[1])
      THEN Instant(DayOf(s[1]) * 24)
    ELSE IF Len(s) = 2 /\ IsDate(s[1]) /\ IsTime(s[2])
      THEN Instant(DayOf(s[1]) * 24 + HourOf(s[2]) - hostOffset)
    ELSE IF Len(s) = 3 /\ IsDate(s[1]) /\ IsTime(s[2]) /\ s[3] = "Z"
      THEN Instant(DayOf(s[1]) * 24 + HourOf(s[2]))
    ELSE NaN

\* new Date(d.getTime() - hours): NaN stays NaN.
MinusHours(d, hours) == IF d.nan THEN NaN ELSE Instant(d.t - hours)

Returned(v) == [ok |-> TRUE, value |-> v]

Thrown(name, message) ==
    [ok |-> FALSE, value |-> [name |-> name, message |-> message]]

\* Date.prototype.toISOString: the UTC date and hour, or a RangeError for
\* an invalid date.
ToISOString(d) ==
    IF d.nan THEN Thrown("RangeError", <<"Invalid time value">>)
    ELSE Returned([day |-> d.t \div 24, hour |-> d.t % 24,
                   zone |-> "Z"])

\* Lines 80-95: cameraTime, or the exception toISOString throws.
ConvertTimestamp(timestampStr, hostOffset) ==
    IF Includes(timestampStr, "NZST") THEN
        LET localTime == DateParse(ReplaceFirst(timestampStr, <<" NZST">>), hostOffset)
            utcTime == MinusHours(localTime, NZSTOffsetHours)
        IN ToISOString(utcTime)
    ELSE IF Includes(timestampStr, "NZDT") THEN
        LET localTime == DateParse(ReplaceFirst(timestampStr, <<" NZDT">>), hostOffset)
            utcTime == MinusHours(localTime, NZDTOffsetHours)
        IN ToISOString(utcTime)
    ELSE ToISOString(DateParse(timestampStr, hostOffset))

-----------------------------------------------------------------------------
(* Numbers.  Coordinates are counted in units of 1e-7 degree.              *)

\* Number.prototype.toFixed(6): the nearest multiple of 1e-6, as a count of
\* 1e-6 units.
ToFixed6(x) == IF x >= 0 THEN (x + 5) \div 10 ELSE -((-x + 5) \div 10)

-----------------------------------------------------------------------------
(* The upstream document.                                                  *)

\* A camera record of all.json (lines 13-29).
Camera(id, coordinates, timestamp) ==
    [id |-> id,
     type |-> "Feature",
     geometry |-> [type |-> "Point", coordinates |-> coordinates],
     properties |-> [title |-> <<"Camera ", id>>,
                     height |-> 1230,
                     latestImageLarge |-> <<"https://images.geonet.org.nz/volcano/cameras/", id>>,
                     latestTimestamp |-> timestamp,
                     azimuth |-> 270],
     volcanoId |-> <<"ruapehu", "tongariro">>,
     volcanoTitle |-> <<"Ruapehu", "Tongariro">>]

\* The camera records the model draws from: a winter and a summer
\* timestamp, an abbreviation in the middle of the string, an empty
\* timestamp, a timestamp with an abbreviation the code does not handle,
\* and a record with three coordinates and a UTC timestamp.
CameraSamples ==
    { Camera("a", <<-391234568, 1759876543>>, <<"2024-06-01", " 10:00:00", " NZST">>),
      Camera("b", <<-392000004, 1756000016>>, <<"2024-06-01", " 10:00:00", " NZDT">>),
      Camera("c", <<-375200000, 1771800000>>, <<"2024-06-01", " NZST", " 10:00:00">>),
      Camera("d", <<-375200000, 1771800000>>, <<>>),
      Camera("f", <<-375200000, 1771800000>>, <<"2024-06-01", " 10:00:00", " AEST">>),
      Camera("e", <<-391234568, 1759876543, 12>>, <<"2024-06-01", " 22:00:00", "Z">>) }

\* The declared shape of a camera record (lines 13-29), as far as the
\* samples vary it.
CameraShapeOk(camera) == Len(camera.geometry.coordinates) = 2

\* A volcano group (lines 31-34).
Group(cameras) == [type |-> "FeatureCollection", features |-> cameras]

\* A group without its features list.
BadGroup == [type |-> "FeatureCollection"]

GroupShapeOk(group) ==
    /\ "features" \in DOMAIN group
    /\ \A i \in 1..Len(group.features) : CameraShapeOk(group.features[i])

\* The sequences of exactly n cameras.
RECURSIVE CameraSeqs(_)
CameraSeqs(n) ==
    IF n = 0 THEN {<<>>}
    ELSE {<<c>> \o rest : c \in CameraSamples, rest \in CameraSeqs(n - 1)}

\* The documents of at most g groups and at most n cameras in all.
RECURSIVE Documents(_, _)
Documents(g, n) ==
    IF g = 0 THEN {<<>>}
    ELSE {<<>>}
         \cup {<<BadGroup>> \o rest : rest \in Documents(g - 1, n)}
         \cup UNION {{<<Group(cams)>> \o rest :
                         cams \in CameraSeqs(m), rest \in Documents(g - 1, n - m)} :
                     m \in 0..n}

DocumentShapeOk(doc) == \A i \in 1..Len(doc) : GroupShapeOk(doc[i])

\* Number of cameras in the groups of a document.
RECURSIVE TotalCameras(_)
TotalCameras(doc) ==
    IF doc = <<>> THEN 0
    ELSE (IF "features" \in DOMAIN Head(doc) THEN Len(Head(doc).features) ELSE 0)
         + TotalCameras(Tail(doc))

\* The cameras of a document, groups in order, cameras in order within a group.
RECURSIVE AllCameras(_)
AllCameras(doc) ==
    IF doc = <<>> THEN <<>>
    ELSE (IF "features" \in DOMAIN Head(doc) THEN Head(doc).features ELSE <<>>)
         \o AllCameras(Tail(doc))

\* A response body: text that is JSON for a document, or text that is no JSON.
JsonBody(doc) == [wellFormed |-> TRUE, value |-> doc]

MalformedBody == [wellFormed |-> FALSE, value |-> <<>>]

Bodies == {MalformedBody} \cup {JsonBody(doc) : doc \in Documents(MaxGroups, MaxCameras)}

\* Responses that are not ok.
ErrorResponses ==
    {[ok |-> FALSE, status |-> 503, statusText |-> "Service Unavailable",
      body |-> MalformedBody],
     [ok |-> FALSE, status |-> 404, statusText |-> "Not Found",
      body |-> JsonBody(<<>>)]}

\* What fetch resolves to, for the given bodies: res.ok, res.status,
\* res.statusText and the body.
ResponsesWith(bodies) ==
    {[ok |-> TRUE, status |-> 200, statusText |-> "OK", body |-> b] : b \in bodies}
    \cup {r \in ErrorResponses : r.body \in bodies}

Responses == ResponsesWith(Bodies)

\* Response.json(): the decoded value, or a SyntaxError.
ResJson(body) ==
    IF body.wellFormed THEN Returned(body.value)
    ELSE Thrown("SyntaxError", <<"Unexpected token in JSON">>)

-----------------------------------------------------------------------------
(* The feature mapper.                                                     *)

\* The coordinates in input order: the axes are not swapped.
PointCoordinatesLatLon(camera) ==
    <<camera.geometry.coordinates[1], camera.geometry.coordinates[2],
      camera.properties.height>>

\* Lines 75 and 134: [lat, lon] is read and [lon, lat, height] is written.
PointCoordinates(camera) ==
    LET lat == camera.geometry.coordinates[1]
        lon == camera.geometry.coordinates[2]
    IN <<lon, lat, camera.properties.height>>

\* The time of the mapping instead of the time of the image.
FeatureTimeNow(cameraTime, nowIso) == nowIso

\* Lines 104-105: time and start are cameraTime; now (line 78) is not used.
FeatureTime(cameraTime, nowIso) == cameraTime

\* Lines 75-76 and 96-136: the feature pushed for one camera.  now and
\* cameraProxyUrl are in scope there.  "deg" stands for the degree sign.
Feature(camera, cameraTime, nowIso, proxyUrl) ==
    LET lat == camera.geometry.coordinates[1]
        lon == camera.geometry.coordinates[2]
        cameraUrl == <<"https://www.geonet.org.nz/volcano/cameras/", camera.id>>
    IN [id |-> <<"volcano-camera-", camera.id>>,
        type |-> "Feature",
        properties |->
            [callsign |-> camera.properties.title,
             type |-> "a-f-G-E-S",
             how |-> "m-g",
             icon |-> "ad78aafb-83a6-4c07-b2b9-a897a8b6a38f:Shapes/camera.png",
             time |-> FeatureTime(cameraTime, nowIso),
             start |-> FeatureTime(cameraTime, nowIso),
             sensor |-> [elevation |-> 0, vfov |-> 45,
                         north |-> camera.properties.azimuth, roll |-> 0,
                         range |-> 15000,
                         azimuth |-> camera.properties.azimuth, fov |-> 45],
             markerColor |-> "rgb(25, 152, 123)",
             links |-> <<[uid |-> <<"volcano-camera-", camera.id, "-link">>,
                          relation |-> "r-u", mime |-> "text/html",
                          url |-> cameraUrl, remarks |-> "View Camera"]>>,
             remarks |->
                 <<<<"Camera: ">> \o camera.properties.title,
                   <<"Volcano: ">> \o Join(camera.volcanoTitle, ", "),
                   <<"Location: ", ToFixed6(lat), ", ", ToFixed6(lon)>>,
                   <<"Height: ", camera.properties.height, "m">>,
                   <<"Azimuth: ", camera.properties.azimuth, "deg">>,
                   <<"Last Updated: ">> \o camera.properties.latestTimestamp>>],
        geometry |-> [type |-> "Point", coordinates |-> PointCoordinates(camera)]]

-----------------------------------------------------------------------------
(* The collaborators' inputs.                                              *)

\* Values of the 'Camera Proxy URL' option (lines 5-10).
ProxyUrls ==
    { <<"https://utils.test.tak.nz/camera-proxy", "/">>,
      <<"https://proxy.example/cams">> }

\* Values new Date().toISOString() takes at line 78.
Clock ==
    { [day |-> 20000, hour |-> 3, zone |-> "Z"],
      [day |-> 20000, hour |-> 4, zone |-> "Z"] }

\* Offsets of the host's time zone from UTC, in hours.
HostOffsets == {0, 12}

Event(op, arg) == [op |-> op, arg |-> arg]

-----------------------------------------------------------------------------
(* control(), lines 56-150.                                                *)

Init ==
    /\ pc = "start"
    /\ tz \in HostOffsets
    /\ cameraProxyUrl = None
    /\ res = None
    /\ volcanoGroups = None
    /\ features = <<>>
    /\ gi = 1
    /\ ci = 1
    /\ now = None
    /\ fc = None
    /\ error = None
    /\ failedAt = "none"
    /\ events = <<>>
    /\ submitted = <<>>
    /\ prev = None

\* A throw inside the try block at the given stage: control passes to the
\* catch clause of line 146.
Raise(stage, err) ==
    /\ pc' = "catch"
    /\ error' = err
    /\ failedAt' = stage

\* Lines 58-61.
LoadEnv ==
    /\ pc = "start"
    /\ \/ /\ \E url \in ProxyUrls : cameraProxyUrl' = StripTrailingSlash(url)
          /\ events' = events \o <<Event("env", <<>>),
                 Event("console.log", <<"ok - Fetching volcano camera data from GeoNet">>)>>
          /\ pc' = "fetch"
          /\ UNCHANGED <<error, failedAt>>
       \/ /\ Raise("env", [name |-> "Error", message |-> <<"Unable to load environment">>])
          /\ events' = Append(events, Event("env", <<>>))
          /\ UNCHANGED cameraProxyUrl
    /\ UNCHANGED <<tz, res, volcanoGroups, features, gi, ci, now, fc, submitted, prev>>

\* Lines 63-64, the response drawn from the given set.
FetchFrom(responses) ==
    /\ pc = "fetch"
    /\ events' = Append(events, Event("fetch", <<"http://images.geonet.org.nz/volcano/cameras/all.json">>))
    /\ \/ /\ \E r \in responses : res' = r
          /\ pc' = "check"
          /\ UNCHANGED <<error, failedAt>>
       \/ /\ Raise("fetch", [name |-> "TypeError", message |-> <<"fetch failed">>])
          /\ UNCHANGED res
    /\ UNCHANGED <<tz, cameraProxyUrl, volcanoGroups, features, gi, ci, now, fc, submitted, prev>>

Fetch == FetchFrom(Responses)

\* Only a server error is refused: a 404 is decoded like an ok response.
CheckStatusServerErrorsOnly ==
    /\ pc = "check"
    /\ IF res.status >= 500
         THEN Raise("status", [name |-> "Error",
                    message |-> <<"Failed to fetch data: ", res.status, " ", res.statusText>>])
         ELSE pc' = "json" /\ UNCHANGED <<error, failedAt>>
    /\ UNCHANGED <<tz, cameraProxyUrl, res, volcanoGroups, features, gi, ci, now, fc,
                   events, submitted, prev>>

\* Lines 66-68.
CheckStatus ==
    /\ pc = "check"
    /\ IF ~res.ok
         THEN Raise("status", [name |-> "Error",
                    message |-> <<"Failed to fetch data: ", res.status, " ", res.statusText>>])
         ELSE pc' = "json" /\ UNCHANGED <<error, failedAt>>
    /\ UNCHANGED <<tz, cameraProxyUrl, res, volcanoGroups, features, gi, ci, now, fc,
                   events, submitted, prev>>

\* Lines 70-71.
DecodeJson ==
    /\ pc = "json"
    /\ events' = Append(events, Event("json", <<>>))
    /\ LET r == ResJson(res.body)
       IN IF r.ok
            THEN /\ volcanoGroups' = r.value
                 /\ features' = <<>>
                 /\ pc' = "loop"
                 /\ UNCHANGED <<error, failedAt>>
            ELSE /\ Raise("json", r.value)
                 /\ UNCHANGED <<volcanoGroups, features>>
    /\ UNCHANGED <<tz, cameraProxyUrl, res, gi, ci, now, fc, submitted, prev>>

\* Line 74 on a group without a features list.
GroupNotIterable ==
    /\ pc = "loop"
    /\ gi <= Len(volcanoGroups)
    /\ "features" \notin DOMAIN volcanoGroups[gi]
    /\ Raise("map", [name |-> "TypeError", message |-> <<"group.features is not iterable">>])
    /\ UNCHANGED <<tz, cameraProxyUrl, res, volcanoGroups, features, gi, ci, now, fc,
                   events, submitted, prev>>

\* The feature is put first: the output is in reverse order.
PushedFront(list, feature) == <<feature>> \o list

\* Line 96: features.push(feature).
Pushed(list, feature) == Append(list, feature)

\* Lines 74-137: one iteration of the inner loop.
MapCamera ==
    /\ pc = "loop"
    /\ gi <= Len(volcanoGroups)
    /\ "features" \in DOMAIN volcanoGroups[gi]
    /\ ci <= Len(volcanoGroups[gi].features)
    /\ \E n \in Clock : now' = n
    /\ LET camera == volcanoGroups[gi].features[ci]
           timestampStr == camera.properties.latestTimestamp
           cameraTime == ConvertTimestamp(timestampStr, tz)
       IN IF cameraTime.ok
            THEN /\ features' = Pushed(features,
                                  Feature(camera, cameraTime.value, now', cameraProxyUrl))
                 /\ ci' = ci + 1
                 /\ UNCHANGED <<pc, error, failedAt>>
            ELSE /\ Raise("timestamp", cameraTime.value)
                 /\ UNCHANGED <<features, ci>>
    /\ UNCHANGED <<tz, cameraProxyUrl, res, volcanoGroups, gi, fc, events, submitted, prev>>

\* The features mapped so far are submitted at the end of every group.
NextGroupSubmitting ==
    /\ pc = "loop"
    /\ gi <= Len(volcanoGroups)
    /\ "features" \in DOMAIN volcanoGroups[gi]
    /\ ci > Len(volcanoGroups[gi].features)
    /\ gi' = gi + 1
    /\ ci' = 1
    /\ events' = Append(events, Event("submit", <<>>))
    /\ submitted' = Append(submitted, [type |-> "FeatureCollection", features |-> features])
    /\ UNCHANGED <<pc, tz, cameraProxyUrl, res, volcanoGroups, features, now, fc, error,
                   failedAt, prev>>

\* Line 73: the inner loop is over, the outer loop takes the next group.
NextGroup ==
    /\ pc = "loop"
    /\ gi <= Len(volcanoGroups)
    /\ "features" \in DOMAIN volcanoGroups[gi]
    /\ ci > Len(volcanoGroups[gi].features)
    /\ gi' = gi + 1
    /\ ci' = 1
    /\ UNCHANGED <<pc, tz, cameraProxyUrl, res, volcanoGroups, features, now, fc, error,
                   failedAt, events, submitted, prev>>

\* Lines 140-144: the outer loop is over.
BuildCollection ==
    /\ pc = "loop"
    /\ gi > Len(volcanoGroups)
    /\ fc' = [type |-> "FeatureCollection", features |-> features]
    /\ events' = Append(events,
           Event("console.log", <<"ok - fetched ", Len(features), " volcano cameras">>))
    /\ pc' = "submit"
    /\ UNCHANGED <<tz, cameraProxyUrl, res, volcanoGroups, features, gi, ci, now, error,
                   failedAt, submitted, prev>>

\* A collection without features is not submitted.
SubmitUnlessEmpty ==
    /\ pc = "submit"
    /\ IF fc.features = <<>>
         THEN /\ pc' = "done"
              /\ UNCHANGED <<events, submitted, error, failedAt>>
         ELSE /\ events' = Append(events, Event("submit", <<>>))
              /\ submitted' = Append(submitted, fc)
              /\ \/ pc' = "done" /\ UNCHANGED <<error, failedAt>>
                 \/ Raise("submit", [name |-> "Error", message |-> <<"Unable to submit">>])
    /\ UNCHANGED <<tz, cameraProxyUrl, res, volcanoGroups, features, gi, ci, now, fc, prev>>

\* Line 145: this.submit(fc) resolves or rejects.
Submit ==
    /\ pc = "submit"
    /\ events' = Append(events, Event("submit", <<>>))
    /\ submitted' = Append(submitted, fc)
    /\ \/ pc' = "done" /\ UNCHANGED <<error, failedAt>>
       \/ Raise("submit", [name |-> "Error", message |-> <<"Unable to submit">>])
    /\ UNCHANGED <<tz, cameraProxyUrl, res, volcanoGroups, features, gi, ci, now, fc, prev>>

\* The catch clause logs the error and returns.
CatchSwallow ==
    /\ pc = "catch"
    /\ events' = Append(events,
           Event("console.error", <<"Error in ETL process: ">> \o error.message))
    /\ pc' = "done"
    /\ UNCHANGED <<tz, cameraProxyUrl, res, volcanoGroups, features, gi, ci, now, fc,
                   error, failedAt, submitted, prev>>

\* Lines 146-149: the catch clause logs the error and throws it again.
Catch ==
    /\ pc = "catch"
    /\ events' = events \o
           <<Event("console.error", <<"Error in ETL process: ">> \o error.message),
             Event("throw", error.message)>>
    /\ pc' = "thrown"
    /\ UNCHANGED <<tz, cameraProxyUrl, res, volcanoGroups, features, gi, ci, now, fc,
                   error, failedAt, submitted, prev>>

Next ==
    \/ LoadEnv
    \/ Fetch
    \/ CheckStatus
    \/ DecodeJson
    \/ GroupNotIterable
    \/ MapCamera
    \/ NextGroup
    \/ BuildCollection
    \/ Submit
    \/ Catch

Spec == Init /\ [][Next]_vars

-----------------------------------------------------------------------------
(* Two invocations on the same upstream data.                              *)

\* Lines 154-156: the schedule invokes the handler again after a run that
\* submitted and returned; a new Task runs control() from its start.  What the finished
\* run fetched and submitted, its proxy URL and its last clock reading are
\* kept for comparison.
Rerun ==
    /\ pc = "done"
    /\ prev = None
    /\ submitted # <<>>
    /\ prev' = [body |-> res.body, submitted |-> submitted,
                cameraProxyUrl |-> cameraProxyUrl, now |-> now]
    /\ pc' = "start"
    /\ cameraProxyUrl' = None
    /\ res' = None
    /\ volcanoGroups' = None
    /\ features' = <<>>
    /\ gi' = 1
    /\ ci' = 1
    /\ now' = None
    /\ fc' = None
    /\ error' = None
    /\ failedAt' = "none"
    /\ events' = <<>>
    /\ submitted' = <<>>
    /\ UNCHANGED tz

\* The second invocation receives the body the first one received.
FetchAgain ==
    FetchFrom(IF prev = None THEN Responses ELSE ResponsesWith({prev.body}))

NextRerun ==
    \/ LoadEnv
    \/ FetchAgain
    \/ CheckStatus
    \/ DecodeJson
    \/ GroupNotIterable
    \/ MapCamera
    \/ NextGroup
    \/ BuildCollection
    \/ Submit
    \/ Catch
    \/ Rerun

SpecRerun == Init /\ [][NextRerun]_vars

-----------------------------------------------------------------------------
(* Properties.                                                             *)

\* The document the run received.
InputDoc == res.body.value

InputCameras == AllCameras(InputDoc)

HasEvent(op) == \E i \in 1..Len(events) : events[i].op = op

CountEvents(op) == Cardinality({i \in 1..Len(events) : events[i].op = op})

Finished == pc \in {"done", "thrown"}

\* C1: every submitted feature sequence has one feature per input camera:
\* its length is the number of cameras of all groups, and its k-th feature
\* has the id "volcano-camera-" + id of the k-th input camera, groups and
\* cameras taken in input order.
C1_OneFeaturePerCamera ==
    \A k \in 1..Len(submitted) :
        LET out == submitted[k].features
        IN /\ Len(out) = TotalCameras(InputDoc)
           /\ \A i \in 1..Len(out) :
                  out[i].id = <<"volcano-camera-", InputCameras[i].id>>

\* A run submitted the features of two groups of one camera each, the
\* cameras having different ids.
C1_Witness ==
    /\ submitted # <<>>
    /\ Len(InputDoc) = 2
    /\ \A g \in 1..2 : "features" \in DOMAIN InputDoc[g] /\ Len(InputDoc[g].features) = 1
    /\ InputDoc[1].features[1].id # InputDoc[2].features[1].id

\* C2: a failure at a stage before submission (environment, fetch, status,
\* decoding, mapping of any camera) leaves submit uncalled, and whatever is
\* submitted is the whole collection, built after the last group.
C2_NoSubmitAfterFailure ==
    /\ failedAt \notin {"none", "submit"} => submitted = <<>> /\ ~HasEvent("submit")
    /\ \A k \in 1..Len(submitted) :
           /\ gi > Len(volcanoGroups)
           /\ submitted[k].features = features
           /\ Len(features) = TotalCameras(InputDoc)

\* The timestamp of the last camera of the last group failed after another
\* camera had been mapped, and the run ended without a submission.
C2_Witness ==
    /\ pc = "thrown"
    /\ failedAt = "timestamp"
    /\ features # <<>>
    /\ gi = Len(volcanoGroups)
    /\ ci = Len(volcanoGroups[gi].features)
    /\ submitted = <<>>

\* C3: a finished run whose fetch was ok and whose cameras were all mapped
\* called submit exactly once, after the loop, with the whole collection;
\* so for an empty list of groups.  No run calls submit twice.
C3_SubmitOnce ==
    /\ Len(submitted) <= 1
    /\ CountEvents("submit") = Len(submitted)
    /\ (Finished /\ failedAt \in {"none", "submit"}) =>
           /\ Len(submitted) = 1
           /\ submitted[1] = [type |-> "FeatureCollection", features |-> features]
           /\ Len(features) = TotalCameras(InputDoc)
           /\ gi > Len(volcanoGroups)

\* A run on an empty list of groups returned after one submission of a
\* collection without features.
C3_Witness ==
    /\ pc = "done"
    /\ InputDoc = <<>>
    /\ submitted = <<[type |-> "FeatureCollection", features |-> <<>>]>>

\* C4: a response that is not ok makes the run fail at the status check
\* with an error whose message carries res.status and res.statusText; the
\* body is not decoded, no camera is mapped and submit is not called.
C4_NonOkFails ==
    /\ (res # None /\ ~res.ok /\ pc # "check") =>
           /\ failedAt = "status"
           /\ pc \in {"catch", "thrown"}
    /\ failedAt = "status" =>
           /\ ~res.ok
           /\ error.message = <<"Failed to fetch data: ", res.status, " ", res.statusText>>
           /\ ~HasEvent("json")
           /\ features = <<>>
           /\ submitted = <<>>
           /\ ~HasEvent("submit")

\* A 503 response ended the run with the error thrown to the caller.
C4_Witness ==
    /\ pc = "thrown"
    /\ failedAt = "status"
    /\ res.status = 503

\* C5 (as claimed): a body that is no JSON, or whose document does not have
\* the declared shape, is never submitted, and its run does not return
\* normally.
C5_Claim_InvalidDocumentNotSubmitted ==
    (res # None /\ res.ok /\ ~(res.body.wellFormed /\ DocumentShapeOk(res.body.value)))
        => /\ submitted = <<>>
           /\ pc # "done"

\* The conversion C6 describes: the suffix decides.
ClaimedConvert(s, hostOffset) ==
    IF EndsWith(s, <<" NZST">>)
      THEN ToISOString(MinusHours(DateParse(SubSeq(s, 1, Len(s) - 1), hostOffset),
                                  NZSTOffsetHours))
    ELSE IF EndsWith(s, <<" NZDT">>)
      THEN ToISOString(MinusHours(DateParse(SubSeq(s, 1, Len(s) - 1), hostOffset),
                                  NZDTOffsetHours))
    ELSE ToISOString(DateParse(s, hostOffset))

\* C6 (as claimed): the time of every mapped camera is the one the suffix of
\* its latest-timestamp decides (" NZST": minus 12 hours, " NZDT": minus 13
\* hours, otherwise parsed with no offset), and start equals time.
C6_Claim_SuffixDecides ==
    \A i \in 1..Len(features) :
        LET want == ClaimedConvert(InputCameras[i].properties.latestTimestamp, tz)
        IN /\ want.ok
           /\ features[i].properties.time = want.value
           /\ features[i].properties.start = features[i].properties.time

\* C7 (as claimed): no feature is pushed for a timestamp that does not
\* parse, and the error of the failed conversion names the offending input
\* string.
C7_Claim_ErrorNamesInput ==
    /\ \A i \in 1..Len(features) :
           ConvertTimestamp(InputCameras[i].properties.latestTimestamp, tz).ok
    /\ failedAt = "timestamp" =>
           LET timestampStr == volcanoGroups[gi].features[ci].properties.latestTimestamp
           IN IndexOf(error.message, timestampStr) # 0

\* C8: the feature of a camera at [lat, lon] with height h has the
\* coordinates [lon, lat, h], and its remarks list lat before lon.
C8_AxisSwap ==
    \A i \in 1..Len(features) :
        LET camera == InputCameras[i]
            lat == camera.geometry.coordinates[1]
            lon == camera.geometry.coordinates[2]
        IN Len(camera.geometry.coordinates) = 2 =>
             /\ features[i].geometry.coordinates = <<lon, lat, camera.properties.height>>
             /\ features[i].properties.remarks[3]
                    = <<"Location: ", ToFixed6(lat), ", ", ToFixed6(lon)>>
             /\ (lat = -391234568 /\ lon = 1759876543) =>
                    features[i].properties.remarks[3]
                        = <<"Location: ", -39123457, ", ", 175987654>>

\* The camera at -39.1234568, 175.9876543 was mapped and submitted.
C8_Witness ==
    /\ submitted # <<>>
    /\ \E i \in 1..Len(features) :
           /\ InputCameras[i].geometry.coordinates = <<-391234568, 1759876543>>
           /\ features[i].geometry.coordinates[1] = 1759876543

C10_LoggedOnceThenRethrown ==
    /\ failedAt # "none" => pc \in {"catch", "thrown"}
    /\ pc = "done" => ~HasEvent("console.error") /\ ~HasEvent("throw")
    /\ pc = "catch" => ~HasEvent("console.error") /\ ~HasEvent("throw")
    /\ pc = "thrown" =>
           /\ failedAt # "none"
           /\ CountEvents("console.error") = 1
           /\ CountEvents("throw") = 1
           /\ Len(events) >= 2
           /\ events[Len(events) - 1] =
                  Event("console.error", <<"Error in ETL process: ">> \o error.message)
           /\ events[Len(events)] = Event("throw", error.message)
           /\ CountEvents("fetch") <= 1
           /\ ~ENABLED Next

\* The error of a rejected submit was logged and thrown again.
C10_Witness ==
    /\ pc = "thrown"
    /\ failedAt = "submit"
    /\ events[Len(events)].op = "throw"

=============================================================================
